---------------------------- MODULE Spec2Model ----------------------------
(* A model of Transformer.py: the federated round loop of                 *)
(* federated_training with average_weights, the helpers of the batching,  *)
(* masking, label-smoothing and attention-construction code, the NoamOpt  *)
(* schedule, the loss-compute strategies, data_gen, generate,             *)
(* greedy_decode, test and train.                                         *)
EXTENDS Integers, Sequences, FiniteSets, TLC

(***************************************************************************)
(* Bounds of the model.                                                    *)
(***************************************************************************)
MaxRounds == 2
MaxClients == 3
MaxEpochs == 1
MaxFracNum == 3
FracDen == 2
MaxW == 3
MaxBatch == 2
MaxLen == 3
MaxV == 4
MaxRows == 3
MaxH == 8
MaxDModel == 16
MaxWarmup == 3
MaxSteps == 5
MaxGroups == 2
MaxDecodeLen == 2
MaxLines == 2
MaxLineLen == 3
MaxWindow == 2
MaxExamples == 4
MaxGenBatch == 2
MaxNBatches == 2
MaxPositions == 3

(***************************************************************************)
(* Defaults of make_model.                                                 *)
(***************************************************************************)
DefaultN == 6
DefaultDModel == 512
DefaultDff == 2048

VARIABLES
    args,           \* the arguments of the entry point under analysis
    pc,             \* position in federated_training
    roundd,         \* the round loop variable
    heap,           \* object id -> weight collection (parameter name -> tensor)
    global_model,   \* reference to the global model's parameters
    global_weights, \* reference held by the name global_weights
    model,          \* reference to the current client's model, or NoRef
    local_weights,  \* list of references, the round's collected state dicts
    idxs_users,     \* the sampled client indices, in sampling order
    ui,             \* position of the client loop in idxs_users
    epoch,          \* the epoch loop variable of the current client
    files,          \* persisted artifacts: file name -> saved weights
    round_start,    \* history: global parameters and global artifact when the round began
    gwrites,        \* history: writes to the global model's parameters this round
    log,            \* history: the events of the current round, in order
    results,        \* history: each finished client's trained weights this round
    failed,         \* history: a client of the current round raised
    ret,            \* the value returned by the entry point, or Absent
    st              \* the locals and objects of the helper under analysis, or Absent

fedvars == <<pc, roundd, heap, global_model, global_weights, model, local_weights,
             idxs_users, ui, epoch, files, round_start, gwrites, log, results, failed>>

vars == <<args, ret, st, fedvars>>

\* everything but the position: untouched while a single helper is called
fedrest == <<roundd, heap, global_model, global_weights, model, local_weights,
             idxs_users, ui, epoch, files, round_start, gwrites, log, results, failed>>

NoRef == 0
Absent == <<>>

(***************************************************************************)
(* Tensor values are exact rationals <<numerator, denominator>>, kept in   *)
(* lowest terms with a positive denominator.                               *)
(***************************************************************************)
Abs(x) == IF x < 0 THEN -x ELSE x

Max(a, b) == IF a >= b THEN a ELSE b

RECURSIVE GCD(_, _)
GCD(a, b) == IF b = 0 THEN a ELSE GCD(b, a % b)

Norm(n, d) ==
    LET g == GCD(Abs(n), d)
    IN  IF n = 0 THEN <<0, 1>>
        ELSE IF n < 0 THEN <<-(Abs(n) \div g), d \div g>>
        ELSE <<n \div g, d \div g>>

R(n) == <<n, 1>>

RAdd(x, y) == Norm(x[1] * y[2] + y[1] * x[2], x[2] * y[2])

RDivInt(x, n) == Norm(x[1], x[2] * n)

\* w_avg[key] += w[i][key]: element-wise sum of two tensors of one shape
TAdd(a, b) == [j \in DOMAIN a |-> RAdd(a[j], b[j])]

\* torch.div(tensor, n): element-wise true division by an integer
TDivBad(a, n) == [j \in DOMAIN a |-> RDivInt(a[j], n + 1)]

TDiv(a, n) == [j \in DOMAIN a |-> RDivInt(a[j], n)]

(***************************************************************************)
(* average_weights(w): deep copy of w[0], then per key the in-place sum of *)
(* w[1..] and the division by len(w).                                      *)
(***************************************************************************)
RECURSIVE SumFrom(_, _, _, _)
SumFrom(w, key, i, acc) ==
    IF i > Len(w) THEN acc
    ELSE SumFrom(w, key, i + 1, TAdd(acc, w[i][key]))

average_weights_from_first(w) ==
    [key \in DOMAIN w[1] |-> TDiv(SumFrom(w, key, 1, w[1][key]), Len(w))]

average_weights(w) ==
    [key \in DOMAIN w[1] |-> TDiv(SumFrom(w, key, 2, w[1][key]), Len(w))]

(***************************************************************************)
(* The heap: deep copies allocate, aliases do not.                         *)
(***************************************************************************)
NewRef(h) == CHOOSE r \in 1..(Cardinality(DOMAIN h) + 1) : r \notin DOMAIN h

copy_alias(h, r) == [ref |-> r, heap |-> h]

copy_deepcopy(h, r) == [ref |-> NewRef(h), heap |-> h @@ (NewRef(h) :> h[r])]

\* objects no name refers to any more are collected
Live(h, refs) == [r \in (DOMAIN h) \cap refs |-> h[r]]

Range(s) == {s[i] : i \in DOMAIN s}

(***************************************************************************)
(* The weight collections of the model: parameter names and shapes.       *)
(***************************************************************************)
Keys == {"proj.weight", "proj.bias"}

\* the parameters make_model leaves in a new model (one representative draw)
InitWeights ==
    { [k \in Keys |-> IF k = "proj.weight" THEN <<R(1), R(2)>> ELSE <<R(3)>>] }

\* the parameter changes one training run_epoch (with an optimizer) may make
Updates ==
    { [k \in Keys |-> IF k = "proj.weight" THEN <<R(1), R(0)>> ELSE <<R(0)>>],
      [k \in Keys |-> IF k = "proj.weight" THEN <<R(0), R(-1)>> ELSE <<R(2)>>] }

ApplyUpdate(p, u) == [k \in DOMAIN p |-> TAdd(p[k], u[k])]

\* load_state_dict copies the given values into the module's own tensors
load_state_dict(p, sd) == [k \in DOMAIN p |-> sd[k]]

(***************************************************************************)
(* Sampling: m = max(int(frac * clients), 1) indices, without replacement. *)
(***************************************************************************)
IntFracTimes(frac, clients) == (frac[1] * clients) \div frac[2]

SampleSizeNoMax(frac, clients) == IntFracTimes(frac, clients)

SampleSize(frac, clients) == Max(IntFracTimes(frac, clients), 1)

Choices(clients, m) ==
    {s \in [1..m -> 1..clients] : \A a, b \in 1..m : a # b => s[a] # s[b]}

FedArgs ==
    [rounds : 1..MaxRounds, clients : 1..MaxClients, epochs : 0..MaxEpochs,
     frac : {<<n, FracDen>> : n \in 0..MaxFracNum}]

Init ==
    /\ args \in FedArgs
    /\ pc = "for_round"
    /\ roundd = 0
    /\ \E p \in InitWeights : heap = (1 :> p)
    /\ global_model = 1
    /\ global_weights = 1
    /\ model = NoRef
    /\ local_weights = <<>>
    /\ idxs_users = <<>>
    /\ ui = 1
    /\ epoch = 0
    /\ files = [globalmodels |-> Absent, local_model |-> Absent]
    /\ round_start = [weights |-> heap[1], globalmodels |-> Absent]
    /\ gwrites = 0
    /\ log = <<>>
    /\ results = <<>>
    /\ failed = FALSE
    /\ ret = Absent
    /\ st = Absent

Refs(gm, gw, m, lw) == {gm, gw, m} \cup Range(lw)

Event(e, c) == [ev |-> e, client |-> c, n |-> Len(local_weights)]

\* lines 660-666: a new round begins, the clients are sampled
Sample ==
    /\ pc = "for_round"
    /\ roundd < args.rounds
    /\ LET m == SampleSize(args.frac, args.clients)
       IN  /\ m <= args.clients
           /\ idxs_users' \in Choices(args.clients, m)
    /\ local_weights' = <<>>
    /\ heap' = Live(heap, Refs(global_model, global_weights, model, <<>>))
    /\ ui' = 1
    /\ pc' = "for_client"
    /\ round_start' = [weights |-> heap[global_model], globalmodels |-> files.globalmodels]
    /\ gwrites' = 0
    /\ log' = <<>>
    /\ results' = <<>>
    /\ UNCHANGED <<st, args, ret, roundd, global_model, global_weights, model, epoch, files, failed>>

\* line 666: np.random.choice(..., replace=False) raises when m exceeds the population
SampleRaises ==
    /\ pc = "for_round"
    /\ roundd < args.rounds
    /\ SampleSize(args.frac, args.clients) > args.clients
    /\ pc' = "raised"
    /\ UNCHANGED <<st, args, ret, roundd, heap, global_model, global_weights, model, local_weights,
                   idxs_users, ui, epoch, files, round_start, gwrites, log, results, failed>>

\* line 674: the object a client's model is copied from
DispatchSourceStale == IF model # NoRef THEN model ELSE global_model

DispatchSource == global_model

\* lines 669-677: the client's data is read and its model is copied from the global model
Dispatch ==
    /\ pc = "for_client"
    /\ ui <= Len(idxs_users)
    /\ LET c == copy_deepcopy(heap, DispatchSource)
       IN  /\ model' = c.ref
           /\ heap' = Live(c.heap, Refs(global_model, global_weights, c.ref, local_weights))
    /\ epoch' = 0
    /\ pc' = "for_epoch"
    /\ log' = Append(log, Event("copy", idxs_users[ui]))
    /\ UNCHANGED <<st, args, ret, roundd, global_model, global_weights, local_weights, idxs_users,
                   ui, files, round_start, gwrites, results, failed>>

\* lines 679-685: one epoch, a training run_epoch (optimizer attached) and an evaluation one
TrainEpoch ==
    /\ pc = "for_epoch"
    /\ epoch < args.epochs
    /\ \E u \in Updates : heap' = [heap EXCEPT ![model] = ApplyUpdate(@, u)]
    /\ gwrites' = gwrites + (IF model = global_model THEN 1 ELSE 0)
    /\ epoch' = epoch + 1
    /\ log' = Append(log, Event("train", idxs_users[ui]))
    /\ UNCHANGED <<st, args, ret, pc, roundd, global_model, global_weights, model, local_weights,
                   idxs_users, ui, files, round_start, results, failed>>

\* lines 669-688 raise: nothing in federated_training catches, the call ends
ClientRaisesSwallowed ==
    /\ \/ pc = "for_client" /\ ui <= Len(idxs_users)
       \/ pc = "for_epoch"
    /\ pc' = "for_client"
    /\ ui' = ui + 1
    /\ failed' = TRUE
    /\ UNCHANGED <<st, args, ret, roundd, heap, global_model, global_weights, model, local_weights,
                   idxs_users, epoch, files, round_start, gwrites, log, results>>

ClientRaises ==
    /\ \/ pc = "for_client" /\ ui <= Len(idxs_users)
       \/ pc = "for_epoch"
    /\ pc' = "raised"
    /\ failed' = TRUE
    /\ UNCHANGED <<st, args, ret, roundd, heap, global_model, global_weights, model, local_weights,
                   idxs_users, ui, epoch, files, round_start, gwrites, log, results>>

\* lines 687-688: the trained state dict is deep-copied into the list and saved
Collect ==
    /\ pc = "for_epoch"
    /\ epoch >= args.epochs
    /\ LET c == copy_deepcopy(heap, model)
       IN  /\ local_weights' = Append(local_weights, c.ref)
           /\ heap' = c.heap
    /\ files' = [files EXCEPT !.local_model = heap[model]]
    /\ results' = Append(results, [client |-> idxs_users[ui], weights |-> heap[model]])
    /\ log' = Append(log, Event("collect", idxs_users[ui]))
    /\ ui' = ui + 1
    /\ pc' = "for_client"
    /\ UNCHANGED <<st, args, ret, roundd, global_model, global_weights, model, idxs_users, epoch,
                   round_start, gwrites, failed>>

\* line 690: the client loop is over, the collected weights are averaged
Aggregate ==
    /\ pc = "for_client"
    /\ ui > Len(idxs_users)
    /\ LET w == [i \in 1..Len(local_weights) |-> heap[local_weights[i]]]
           r == NewRef(heap)
       IN  /\ global_weights' = r
           /\ heap' = Live(heap @@ (r :> average_weights(w)),
                           Refs(global_model, r, model, local_weights))
    /\ log' = Append(log, Event("average", 0))
    /\ pc' = "install"
    /\ UNCHANGED <<st, args, ret, roundd, global_model, model, local_weights, idxs_users, ui, epoch,
                   files, round_start, gwrites, results, failed>>

\* line 691: the averaged weights are loaded into the global model
Install ==
    /\ pc = "install"
    /\ heap' = [heap EXCEPT ![global_model] = load_state_dict(@, heap[global_weights])]
    /\ gwrites' = gwrites + 1
    /\ log' = Append(log, Event("install", 0))
    /\ pc' = "persist"
    /\ UNCHANGED <<st, args, ret, roundd, global_model, global_weights, model, local_weights,
                   idxs_users, ui, epoch, files, round_start, results, failed>>

\* line 692 and the loop step: the global model is saved and the round ends
Persist ==
    /\ pc = "persist"
    /\ files' = [files EXCEPT !.globalmodels = heap[global_model]]
    /\ roundd' = roundd + 1
    /\ pc' = "for_round"
    /\ UNCHANGED <<st, args, ret, heap, global_model, global_weights, model, local_weights,
                   idxs_users, ui, epoch, round_start, gwrites, log, results, failed>>

\* line 698: all rounds are done
Return ==
    /\ pc = "for_round"
    /\ roundd >= args.rounds
    /\ pc' = "done"
    /\ ret' = heap[global_model]
    /\ UNCHANGED <<st, args, roundd, heap, global_model, global_weights, model, local_weights,
                   idxs_users, ui, epoch, files, round_start, gwrites, log, results, failed>>

Next ==
    \/ Sample
    \/ SampleRaises
    \/ Dispatch
    \/ TrainEpoch
    \/ ClientRaises
    \/ Collect
    \/ Aggregate
    \/ Install
    \/ Persist
    \/ Return

Spec == Init /\ [][Next]_vars

(***************************************************************************)
(* Properties of the federated round loop.                                 *)
(***************************************************************************)
InRound == pc \in {"for_client", "for_epoch", "install"}

HasEvent(e) == \E i \in DOMAIN log : log[i].ev = e

\* C1: during a round no client's training changes the global model's parameters
\* or the weights collected from another client: every client trains an object of
\* its own, and the global parameters are written exactly once per round, by the
\* install that follows aggregation.
C1_ClientIsolation ==
    /\ InRound =>
          /\ heap[global_model] = round_start.weights
          /\ gwrites = 0
          /\ \A k \in DOMAIN local_weights :
                /\ heap[local_weights[k]] = results[k].weights
                /\ local_weights[k] \notin {global_model, model}
                /\ \A j \in DOMAIN local_weights : j # k => local_weights[j] # local_weights[k]
    /\ pc = "for_epoch" => model # global_model
    /\ pc = "raised" => gwrites = 0
    /\ pc = "persist" => gwrites = 1 /\ log[Len(log)].ev = "install"
    /\ (pc \in {"for_round", "done"} /\ roundd > 0) => gwrites = 1

C1_Witness ==
    /\ pc = "persist"
    /\ Len(local_weights) >= 2
    /\ HasEvent("train")
    /\ heap[global_model] # round_start.weights
    /\ results[1].weights # results[2].weights

\* C2: once a client of a round has raised, the call has ended without averaging
\* the weights gathered so far, and the global parameters and the saved global
\* model are those the round began with (those of the previous round's end).
C2_FailureAbortsRound ==
    failed =>
        /\ pc = "raised"
        /\ ~HasEvent("average")
        /\ gwrites = 0
        /\ heap[global_model] = round_start.weights
        /\ files.globalmodels = round_start.globalmodels
        /\ roundd > 0 => files.globalmodels = heap[global_model]

C2_Witness ==
    /\ failed
    /\ roundd >= 1
    /\ Len(local_weights) >= 1
    /\ HasEvent("train")
    /\ heap[local_weights[1]] # heap[global_model]

\* C3 as stated: within a round every copy of the global model is made before any
\* client's training starts.
C3_AllCopiesBeforeAnyTraining ==
    \A i, j \in DOMAIN log :
        (log[i].ev = "train" /\ log[j].ev = "copy") => j < i

\* C3 amended: each client's copy is made before that client's own training, every
\* copy holds the parameters the global model had when the round began, and the
\* global model is not written while the clients are being served.
C3_CopyBeforeOwnTraining ==
    /\ \A i \in DOMAIN log :
          log[i].ev = "train" =>
              \E j \in 1..(i - 1) : log[j].ev = "copy" /\ log[j].client = log[i].client
    /\ (pc = "for_epoch" /\ epoch = 0) => heap[model] = round_start.weights
    /\ pc \in {"for_client", "for_epoch"} =>
          gwrites = 0 /\ heap[global_model] = round_start.weights

C3_Witness ==
    /\ pc = "for_epoch"
    /\ epoch = 0
    /\ ui = 2
    /\ HasEvent("train")
    /\ heap[local_weights[1]] # round_start.weights

\* C4: in every round m = max(int(frac * clients), 1) distinct indices of 1..clients
\* are sampled, and average_weights runs only after all m clients have finished
\* training, on a list of exactly m weight collections, one per sampled client.
C4_SampleSizeAndBarrier ==
    (pc \in {"for_client", "for_epoch", "install", "persist"}) =>
        LET m == Max((args.frac[1] * args.clients) \div args.frac[2], 1)
            trains(c) == Cardinality({i \in DOMAIN log : log[i].ev = "train" /\ log[i].client = c})
        IN  /\ Len(idxs_users) = m
            /\ \A a \in 1..m : idxs_users[a] \in 1..args.clients
            /\ \A a, b \in 1..m : a # b => idxs_users[a] # idxs_users[b]
            /\ \A i \in DOMAIN log :
                  log[i].ev = "average" =>
                      /\ log[i].n = m
                      /\ Len(results) = m
                      /\ \A k \in 1..m :
                            /\ results[k].client = idxs_users[k]
                            /\ trains(idxs_users[k]) = args.epochs
            /\ pc = "install" =>
                  /\ Len(local_weights) = m
                  /\ \A k \in 1..m : heap[local_weights[k]] = results[k].weights

C4_Witness ==
    /\ pc = "install"
    /\ Len(idxs_users) = 3
    /\ args.clients = 3
    /\ HasEvent("train")
    /\ idxs_users[1] > idxs_users[2]

\* C5: after a round with clients = 1 (one sampled client) every parameter of the
\* global model equals that client's trained parameter.
C5_SingleClientRoundIsIdentity ==
    (args.clients = 1 /\ pc = "persist") =>
        /\ Len(results) = 1
        /\ \A key \in Keys : heap[global_model][key] = results[1].weights[key]

C5_Witness ==
    /\ args.clients = 1
    /\ pc = "persist"
    /\ HasEvent("train")
    /\ heap[global_model] # round_start.weights
    /\ heap[global_model] = results[1].weights

(***************************************************************************)
(* Calls of single helpers: the arguments are drawn by the initial state,  *)
(* one action runs the helper to its return (or to the exception).         *)
(***************************************************************************)
HelperIdle ==
    /\ pc = "call"
    /\ ret = Absent
    /\ st = Absent
    /\ roundd = 0
    /\ heap = <<>>
    /\ global_model = NoRef
    /\ global_weights = NoRef
    /\ model = NoRef
    /\ local_weights = <<>>
    /\ idxs_users = <<>>
    /\ ui = 1
    /\ epoch = 0
    /\ files = [globalmodels |-> Absent, local_model |-> Absent]
    /\ round_start = [weights |-> Absent, globalmodels |-> Absent]
    /\ gwrites = 0
    /\ log = <<>>
    /\ results = <<>>
    /\ failed = FALSE

Returns(v) ==
    /\ pc = "call"
    /\ pc' = "return"
    /\ ret' = v
    /\ UNCHANGED <<st, args, fedrest>>

Raises ==
    /\ pc = "call"
    /\ pc' = "raised"
    /\ UNCHANGED <<st, args, ret, fedrest>>

(***************************************************************************)
(* average_weights called on its own.                                      *)
(***************************************************************************)
AvgValues == {-1, 2, 4}

AvgCollections ==
    { [k \in Keys |-> IF k = "proj.weight" THEN <<R(a), R(b)>> ELSE <<R(b)>>] :
        a \in AvgValues, b \in AvgValues }

AvgArgs ==
    [fn : {"average_weights"},
     w : UNION {[1..n -> AvgCollections] : n \in 1..MaxW}]

InitAvg == args \in AvgArgs /\ HelperIdle

AvgCall ==
    /\ args.fn = "average_weights"
    /\ Returns(average_weights(args.w))

NextAvg == AvgCall

SpecAvg == InitAvg /\ [][NextAvg]_vars

RECURSIVE IntSum(_, _, _, _)
IntSum(w, key, j, i) ==
    IF i = 0 THEN 0 ELSE w[i][key][j][1] + IntSum(w, key, j, i - 1)

\* C6: average_weights(w) has the keys of the collections of w, and its value at
\* every key and position is the arithmetic mean of the n values of w there.
C6_AverageIsElementwiseMean ==
    pc = "return" =>
        /\ DOMAIN ret = DOMAIN args.w[1]
        /\ \A key \in DOMAIN ret :
              /\ DOMAIN ret[key] = DOMAIN args.w[1][key]
              /\ \A j \in DOMAIN ret[key] :
                    /\ ret[key][j][2] > 0
                    /\ ret[key][j][1] * Len(args.w)
                         = ret[key][j][2] * IntSum(args.w, key, j, Len(args.w))

C6_Witness ==
    /\ pc = "return"
    /\ Len(args.w) = 2
    /\ \A key \in Keys : \A j \in DOMAIN ret[key] :
          /\ args.w[1][key][j] = R(2)
          /\ args.w[2][key][j] = R(4)
          /\ ret[key][j] = R(3)

(***************************************************************************)
(* Masks and Batch.  A 2-D tensor is a sequence of rows; positions are     *)
(* 1-based here, position i of the source being i + 1.                     *)
(***************************************************************************)
None == <<>>

\* np.triu(np.ones((1, size, size)), k=1).astype('uint8'), leading axis dropped
np_triu_k0(size) ==
    [i \in 1..size |-> [j \in 1..size |-> IF j - i >= 0 THEN 1 ELSE 0]]

np_triu_k1(size) ==
    [i \in 1..size |-> [j \in 1..size |-> IF j - i >= 1 THEN 1 ELSE 0]]

\* shape (1, size, size): torch.from_numpy(...) == 0
subsequent_mask(size) ==
    << [i \in 1..size |-> [j \in 1..size |-> np_triu_k1(size)[i][j] = 0]] >>

\* tgt.size(-1): the length of the last axis
LastSize(t) == Len(t[1])

\* (t != pad).unsqueeze(-2): shape (batch, 1, n)
NotPadUnsqueezed(t, pad) ==
    [b \in DOMAIN t |-> << [j \in DOMAIN t[b] |-> t[b][j] # pad] >>]

\* the broadcast & of shapes (batch, 1, n) and (1, n, n)
make_std_mask(tgt, pad) ==
    LET tgt_mask == NotPadUnsqueezed(tgt, pad)
        sub == subsequent_mask(LastSize(tgt))
        n == LastSize(tgt)
    IN  [b \in DOMAIN tgt |->
            [i \in 1..n |-> [j \in 1..n |-> tgt_mask[b][1][j] /\ sub[1][i][j]]]]

\* trg[:, :-1]
SliceToLast(t) == [b \in DOMAIN t |-> SubSeq(t[b], 1, Len(t[b]) - 1)]

\* trg[:, 1:]
SliceFrom0(t) == [b \in DOMAIN t |-> SubSeq(t[b], 1, Len(t[b]))]

SliceFrom1(t) == [b \in DOMAIN t |-> SubSeq(t[b], 2, Len(t[b]))]

\* (t != pad).data.sum()
CountNotPad(t, pad) ==
    Cardinality({bk \in {<<b, k>> : b \in DOMAIN t, k \in 1..LastSize(t)} :
                    t[bk[1]][bk[2]] # pad})

\* Batch.__init__(src, trg, pad)
Batch(src, trg, pad) ==
    IF trg = None
    THEN [src |-> src, src_mask |-> NotPadUnsqueezed(src, pad)]
    ELSE [src |-> src, src_mask |-> NotPadUnsqueezed(src, pad),
          trg |-> SliceToLast(trg),
          trg_y |-> SliceFrom1(trg),
          trg_mask |-> make_std_mask(SliceToLast(trg), pad),
          ntokens |-> CountNotPad(SliceFrom1(trg), pad)]

\* token IDs: the padding ID 0 and the start symbol 1
Tokens == {0, 1}

Pads == {0, 1}

\* tensors of shape (batch, n), batch >= 1
Tensors2D ==
    UNION {[1..b -> [1..n -> Tokens]] : b \in 1..MaxBatch, n \in 0..MaxLen}

\* the source batch: one column holding the start symbol, as data_gen builds it
StartColumn(b) == [r \in 1..b |-> <<1>>]

BatchArgs ==
    [fn : {"Batch"}, src : {StartColumn(1)}, trg : Tensors2D \cup {None}, pad : Pads]

MaskArgs ==
    [fn : {"make_std_mask"}, tgt : Tensors2D, pad : Pads]

SubsequentArgs ==
    [fn : {"subsequent_mask"}, size : 0..MaxLen]

InitBatch ==
    /\ args \in BatchArgs \cup MaskArgs \cup SubsequentArgs
    /\ HelperIdle

BatchInit ==
    /\ args.fn = "Batch"
    /\ Returns(Batch(args.src, args.trg, args.pad))

MakeStdMaskCall ==
    /\ args.fn = "make_std_mask"
    /\ Returns(make_std_mask(args.tgt, args.pad))

SubsequentMaskCall ==
    /\ args.fn = "subsequent_mask"
    /\ Returns(subsequent_mask(args.size))

NextBatch ==
    \/ BatchInit
    \/ MakeStdMaskCall
    \/ SubsequentMaskCall

SpecBatch == InitBatch /\ [][NextBatch]_vars

\* C7: the mask of make_std_mask(tgt, pad) is true at (i, j) of an example exactly
\* when tgt[j] is not the padding ID and j <= i; subsequent_mask(n) has shape
\* (1, n, n) and is true at (i, j) exactly when j <= i.
C7_TargetMask ==
    /\ (pc = "return" /\ args.fn = "make_std_mask") =>
          LET n == Len(args.tgt[1])
          IN  /\ DOMAIN ret = DOMAIN args.tgt
              /\ \A b \in DOMAIN ret :
                    /\ DOMAIN ret[b] = 1..n
                    /\ \A i \in 1..n :
                          /\ DOMAIN ret[b][i] = 1..n
                          /\ \A j \in 1..n :
                                ret[b][i][j] <=> (args.tgt[b][j] # args.pad /\ j <= i)
    /\ (pc = "return" /\ args.fn = "subsequent_mask") =>
          /\ Len(ret) = 1
          /\ DOMAIN ret[1] = 1..args.size
          /\ \A i \in 1..args.size :
                /\ DOMAIN ret[1][i] = 1..args.size
                /\ \A j \in 1..args.size : ret[1][i][j] <=> j <= i

C7_Witness ==
    /\ pc = "return"
    /\ args.fn = "make_std_mask"
    /\ Len(args.tgt) = 2
    /\ Len(args.tgt[1]) = 3
    /\ args.tgt[1][2] = args.pad
    /\ args.tgt[2][2] # args.pad
    /\ ret[1][3][1] /\ ~ret[1][3][2] /\ ret[2][3][2] /\ ~ret[2][2][3]

\* C8: a Batch built with a target of length L >= 1 holds trg and trg_y of length
\* L - 1, trg_y[k] is the original target's position k + 1 (trg[k] its position
\* k), and ntokens counts the positions of trg_y that are not the padding ID.
C8_BatchShift ==
    (pc = "return" /\ args.fn = "Batch" /\ args.trg # None /\ Len(args.trg[1]) >= 1) =>
        LET L == Len(args.trg[1])
        IN  /\ \A b \in DOMAIN args.trg :
                  /\ Len(ret.trg[b]) = L - 1
                  /\ Len(ret.trg_y[b]) = L - 1
                  /\ \A k \in 1..(L - 1) :
                        /\ ret.trg_y[b][k] = args.trg[b][k + 1]
                        /\ ret.trg[b][k] = args.trg[b][k]
            /\ ret.ntokens =
                  Cardinality({bk \in {<<b, k>> : b \in DOMAIN args.trg, k \in 2..L} :
                                  args.trg[bk[1]][bk[2]] # args.pad})

C8_Witness ==
    /\ pc = "return"
    /\ args.fn = "Batch"
    /\ args.trg # None
    /\ Len(args.trg) = 2
    /\ Len(args.trg[1]) = 3
    /\ args.trg[1][1] # args.pad
    /\ args.trg[1][3] = args.pad
    /\ ret.ntokens = 2
    /\ ret.trg[1] # ret.trg_y[1]

(***************************************************************************)
(* LabelSmoothing.forward: the smoothed target distribution it leaves in   *)
(* self.true_dist.  Rows are 1-based, classes are the IDs 0..size-1.  The  *)
(* returned KL divergence is a function of true_dist and x and is not      *)
(* computed here.                                                          *)
(***************************************************************************)
\* self.smoothing / (self.size - 2)
SmoothValueSizeMinus1(smoothing, size) == Norm(smoothing[1], smoothing[2] * (size - 1))

SmoothValue(smoothing, size) == Norm(smoothing[1], smoothing[2] * (size - 2))

\* self.confidence = 1.0 - smoothing
Confidence(smoothing) == Norm(smoothing[2] - smoothing[1], smoothing[2])

\* true_dist = x.data.clone(); true_dist.fill_(v)
Fill(n, size, v) == [r \in 1..n |-> [c \in 0..(size - 1) |-> v]]

\* true_dist.scatter_(1, target.data.unsqueeze(1), confidence)
Scatter(td, target, conf) == [r \in DOMAIN td |-> [td[r] EXCEPT ![target[r]] = conf]]

\* true_dist[:, padding_idx] = 0
ZeroColumn(td, padding_idx) == [r \in DOMAIN td |-> [td[r] EXCEPT ![padding_idx] = R(0)]]

\* torch.nonzero(target.data == padding_idx): a tensor of shape (k, 1)
RECURSIVE NonzeroRows(_, _, _)
NonzeroRows(target, padding_idx, r) ==
    IF r > Len(target) THEN <<>>
    ELSE (IF target[r] = padding_idx THEN << <<r>> >> ELSE <<>>)
             \o NonzeroRows(target, padding_idx, r + 1)

Nonzero(target, padding_idx) == [dim |-> 2, val |-> NonzeroRows(target, padding_idx, 1)]

\* mask.squeeze(): shape (k, 1) becomes (k,), and for k = 1 a 0-dim tensor
Squeeze(mask) ==
    IF Len(mask.val) = 1 THEN [dim |-> 0, val |-> mask.val[1][1]]
    ELSE [dim |-> 1, val |-> [i \in DOMAIN mask.val |-> mask.val[i][1]]]

\* true_dist.index_fill_(0, index, 0.0): the index is a vector or a scalar
IndexFill(td, index, v) ==
    LET rows == IF index.dim = 0 THEN {index.val} ELSE Range(index.val)
    IN  [r \in DOMAIN td |-> IF r \in rows THEN [c \in DOMAIN td[r] |-> v] ELSE td[r]]

TrueDist(size, padding_idx, smoothing, target) ==
    LET filled == Fill(Len(target), size, SmoothValue(smoothing, size))
        scattered == Scatter(filled, target, Confidence(smoothing))
        zeroed == ZeroColumn(scattered, padding_idx)
        mask == Nonzero(target, padding_idx)
    IN  IF mask.dim > 0 THEN IndexFill(zeroed, Squeeze(mask), R(0)) ELSE zeroed

Smoothings == {<<0, 1>>, <<1, 10>>, <<1, 2>>}

LSArgs ==
    UNION { [fn : {"LabelSmoothing.forward"}, size : {V}, padding_idx : Pads,
             smoothing : Smoothings, xsize : {V - 1, V},
             target : UNION {[1..n -> 0..(V - 1)] : n \in 0..MaxRows}] : V \in 3..MaxV }

InitLS == args \in LSArgs /\ HelperIdle

\* line 331: assert x.size(1) == self.size
LSForwardRaises ==
    /\ args.fn = "LabelSmoothing.forward"
    /\ args.xsize # args.size
    /\ Raises

LSForward ==
    /\ args.fn = "LabelSmoothing.forward"
    /\ args.xsize = args.size
    /\ Returns(TrueDist(args.size, args.padding_idx, args.smoothing, args.target))

NextLS ==
    \/ LSForward
    \/ LSForwardRaises

SpecLS == InitLS /\ [][NextLS]_vars

RECURSIVE RowSum(_, _)
RowSum(row, c) == IF c < 0 THEN R(0) ELSE RAdd(row[c], RowSum(row, c - 1))

PaddingRows == {r \in DOMAIN args.target : args.target[r] = args.padding_idx}

\* C9: with size V > 2, a row whose true class is not the padding ID holds
\* 1 - smoothing at the true class, 0 at the padding class and smoothing / (V - 2)
\* at every other class, and sums to 1; a row whose true class is the padding ID
\* is all zeros, whether no row, one row or several rows are padding rows.
C9_SmoothedRows ==
    (pc = "return" /\ args.fn = "LabelSmoothing.forward") =>
        LET sn == args.smoothing[1]
            sd == args.smoothing[2]
            V == args.size
        IN  /\ DOMAIN ret = DOMAIN args.target
            /\ \A r \in DOMAIN ret :
                  IF args.target[r] # args.padding_idx
                  THEN /\ ret[r][args.target[r]][1] * sd = ret[r][args.target[r]][2] * (sd - sn)
                       /\ ret[r][args.padding_idx] = R(0)
                       /\ \A c \in (0..(V - 1)) \ {args.target[r], args.padding_idx} :
                             ret[r][c][1] * sd * (V - 2) = ret[r][c][2] * sn
                       /\ RowSum(ret[r], V - 1) = R(1)
                  ELSE /\ \A c \in 0..(V - 1) : ret[r][c] = R(0)
                       /\ RowSum(ret[r], V - 1) = R(0)

C9_Witness ==
    /\ pc = "return"
    /\ args.fn = "LabelSmoothing.forward"
    /\ args.smoothing = <<1, 10>>
    /\ args.size = 4
    /\ Len(args.target) = 3
    /\ Cardinality(PaddingRows) = 1
    /\ args.target[2] = args.padding_idx
    /\ ret[1][args.target[1]] = <<9, 10>>
    /\ ret[2][args.target[1]] = R(0)

(***************************************************************************)
(* MultiHeadedAttention.__init__ and make_model.                           *)
(***************************************************************************)
\* line 161: assert d_model % h == 0 (h = 0 makes the % itself raise)
AssertSkipped(d_model, h) == h # 0

AssertDivisible(d_model, h) == h # 0 /\ d_model % h = 0

MultiHeadedAttention(h, d_model) ==
    [d_k |-> d_model \div h, h |-> h, linears |-> 4, attn |-> None]

make_model(src_vocab, tgt_vocab, N, d_model, d_ff, h) ==
    [attn |-> MultiHeadedAttention(h, d_model), N |-> N, d_model |-> d_model,
     d_ff |-> d_ff, src_vocab |-> src_vocab, tgt_vocab |-> tgt_vocab]

MHAArgs ==
    [fn : {"MultiHeadedAttention", "make_model"}, h : 0..MaxH,
     d_model : (1..MaxDModel) \cup {DefaultDModel}]

InitMHA == args \in MHAArgs /\ HelperIdle

MHAInit ==
    /\ args.fn = "MultiHeadedAttention"
    /\ AssertDivisible(args.d_model, args.h)
    /\ Returns(MultiHeadedAttention(args.h, args.d_model))

MHAInitRaises ==
    /\ args.fn = "MultiHeadedAttention"
    /\ ~AssertDivisible(args.d_model, args.h)
    /\ Raises

\* line 236 is the first statement of make_model: its exception leaves make_model
MakeModel ==
    /\ args.fn = "make_model"
    /\ AssertDivisible(args.d_model, args.h)
    /\ Returns(make_model(MaxV, MaxV, DefaultN, args.d_model, DefaultDff, args.h))

MakeModelRaises ==
    /\ args.fn = "make_model"
    /\ ~AssertDivisible(args.d_model, args.h)
    /\ Raises

NextMHA ==
    \/ MHAInit
    \/ MHAInitRaises
    \/ MakeModel
    \/ MakeModelRaises

SpecMHA == InitMHA /\ [][NextMHA]_vars

RMul(x, y) == Norm(x[1] * y[1], x[2] * y[2])

RLess(x, y) == x[1] * y[2] < y[1] * x[2]

RMax(x, y) == IF RLess(x, y) THEN y ELSE x

RMin(x, y) == IF RLess(y, x) THEN y ELSE x

\* min(step ** (-0.5), step * warmup ** (-1.5)), squared
WarmupOrDecayMax(step, warmup) ==
    RMax(<<1, step>>, <<step * step, warmup * warmup * warmup>>)

WarmupOrDecay(step, warmup) ==
    RMin(<<1, step>>, <<step * step, warmup * warmup * warmup>>)

\* NoamOpt.rate(step), squared: factor^2 * model_size^(-1) * min(...)^2
rate(o, step) ==
    RMul(<<o.factor * o.factor, o.model_size>>, WarmupOrDecay(step, o.warmup))

\* NoamOpt.__init__ over an optimizer built with lr=0
NoamOpt(model_size, factor, warmup, groups) ==
    [_step |-> 0, warmup |-> warmup, factor |-> factor, model_size |-> model_size,
     _rate |-> R(0),
     lr |-> [g \in 1..groups |-> R(0)],   \* optimizer.param_groups[g]['lr']
     opt_steps |-> 0,                     \* history: calls of optimizer.step
     last_lr |-> [g \in 1..groups |-> R(0)], \* history: the lr optimizer.step last ran with
     rates |-> <<>>,                      \* history: the rate each step applied
     calls |-> 0]                         \* history: calls of NoamOpt.step

\* NoamOpt.step, in statement order
NoamStepStale(o) ==
    LET s == o._step + 1
        r == rate(o, s)
    IN  [o EXCEPT !._step = s, !.opt_steps = @ + 1, !.last_lr = o.lr,
                  !.lr = [g \in DOMAIN o.lr |-> r], !._rate = r, !.rates = Append(@, r)]

NoamStep(o) ==
    LET s == o._step + 1
        r == rate(o, s)
        lr == [g \in DOMAIN o.lr |-> r]
    IN  [o EXCEPT !._step = s, !.lr = lr, !._rate = r,
                  !.opt_steps = @ + 1, !.last_lr = lr, !.rates = Append(@, r)]

ModelSizes == {16, 512}

Factors == {1, 2}

NoamArgs ==
    [fn : {"NoamOpt"}, model_size : ModelSizes, factor : Factors,
     warmup : 1..MaxWarmup, groups : 1..MaxGroups]

InitNoam == args \in NoamArgs /\ HelperIdle

NoamInit ==
    /\ pc = "call"
    /\ args.fn = "NoamOpt"
    /\ st' = NoamOpt(args.model_size, args.factor, args.warmup, args.groups)
    /\ pc' = "ready"
    /\ UNCHANGED <<args, ret, fedrest>>

NoamStepCall ==
    /\ pc = "ready"
    /\ args.fn = "NoamOpt"
    /\ st.calls < MaxSteps
    /\ st' = [NoamStep(st) EXCEPT !.calls = @ + 1]
    /\ UNCHANGED <<args, ret, pc, fedrest>>

\* what a caller sees of 0 ** (-0.5): no number (denominator 0)
ZeroDivisionError == <<0, 0>>

\* rate(step) with an explicit step, or rate() at the current one; step 0 makes
\* 0 ** (-0.5) raise ZeroDivisionError, which the caller sees
NoamRateCall ==
    /\ pc = "ready"
    /\ args.fn = "NoamOpt"
    /\ \E step \in {st._step} \cup (0..(MaxSteps + 1)) :
          ret' = IF step = 0 THEN ZeroDivisionError ELSE rate(st, step)
    /\ UNCHANGED <<args, st, pc, fedrest>>

NextNoam ==
    \/ NoamInit
    \/ NoamStepCall
    \/ NoamRateCall

SpecNoam == InitNoam /\ [][NextNoam]_vars

\* C11: every call of NoamOpt.step adds one to the step counter, sets the lr of
\* every parameter group to rate(new count) and only then runs the optimizer's
\* step; after k calls the counter is k and the applied rate is rate(k).
C11_StepSetsRateThenSteps ==
    (pc = "ready" /\ args.fn = "NoamOpt") =>
        /\ st._step = st.calls
        /\ st.opt_steps = st.calls
        /\ Len(st.rates) = st.calls
        /\ st.calls > 0 =>
              /\ st._rate = rate(st, st.calls)
              /\ \A g \in DOMAIN st.lr :
                    /\ st.lr[g] = rate(st, st.calls)
                    /\ st.last_lr[g] = rate(st, st.calls)
        /\ st.calls = 0 => st._rate = R(0)

C11_Witness ==
    /\ pc = "ready"
    /\ args.fn = "NoamOpt"
    /\ st.calls = 3
    /\ args.groups = 2
    /\ st.last_lr[2] = st.lr[2]
    /\ st.lr[2] # R(0)

\* C12: the rates applied at steps s = 1, 2, ... rise strictly while s <= warmup
\* and fall strictly for s > warmup.
C12_RateRisesThenFalls ==
    (pc = "ready" /\ args.fn = "NoamOpt") =>
        /\ \A s \in 1..(Len(st.rates) - 1) :
              /\ (s + 1 <= args.warmup) => RLess(st.rates[s], st.rates[s + 1])
              /\ (s > args.warmup) => RLess(st.rates[s + 1], st.rates[s])
        /\ (args.warmup > 1 /\ Len(st.rates) >= args.warmup) =>
              RLess(st.rates[1], st.rates[args.warmup])
        /\ \A s \in DOMAIN st.rates : RLess(R(0), st.rates[s])

C12_Witness ==
    /\ pc = "ready"
    /\ args.fn = "NoamOpt"
    /\ args.warmup = 3
    /\ Len(st.rates) = 5
    /\ RLess(st.rates[1], st.rates[3])
    /\ RLess(st.rates[5], st.rates[4])

(***************************************************************************)
(* greedy_decode.  The generator's output for one row is known only by    *)
(* the order torch.argsort puts the keys in (ascending log-probability).  *)
(***************************************************************************)
TopCandidates == 9

DecodeKeys == {0, 1, 2}

DecodeRows == {1, 2}

\* the orders argsort may return for one row: every key occurs at every rank
Argsorts == {<<0, 1, 2>>, <<1, 2, 0>>, <<2, 0, 1>>}

\* seq[-k:]
LastK(seq, k) ==
    IF k >= Len(seq) THEN seq ELSE SubSeq(seq, Len(seq) - k + 1, Len(seq))

\* torch.ones(shape).fill_(v)
FillLike(t, v) == [r \in DOMAIN t |-> [c \in DOMAIN t[r] |-> v]]

\* Number of columns of a 2-D tensor with at least one row
Columns(t) == Len(t[1])

\* range(max_len - 1)
DecodeIterationsMaxLen(max_len) == max_len

DecodeIterations(max_len) == max_len - 1

\* torch.eq(labels, pred) with a Python bool: compared as 0 or 1
EqPred(labels, pred) ==
    [r \in DOMAIN labels |-> labels[r] = (IF pred THEN 1 ELSE 0)]

DecodeTensors ==
    UNION {[1..r -> [1..c -> DecodeKeys]] : r \in DecodeRows, c \in 0..MaxDecodeLen}

DecodeArgs ==
    [fn : {"greedy_decode"}, tgt : DecodeTensors, max_len : 1..(MaxDecodeLen + 1),
     start_symbol : {1}, pred : BOOLEAN, g : {1, 2}, cuda : BOOLEAN]

InitDecode == args \in DecodeArgs /\ HelperIdle

\* lines 476-482: encode, then build ys on "cuda:0"
DecodeEncode ==
    /\ pc = "call"
    /\ args.fn = "greedy_decode"
    /\ args.cuda
    /\ st' = [encodes |-> 1, ys |-> FillLike(args.tgt, args.start_symbol),
              i |-> 0, abnormal_count |-> 0,
              argsort |-> <<>>, predicted |-> <<>>, labels |-> <<>>, counted |-> FALSE]
    /\ pc' = "loop"
    /\ UNCHANGED <<args, ret, fedrest>>

\* line 479 without a CUDA device: .to("cuda:0") raises, after the encode
DecodeNoDevice ==
    /\ pc = "call"
    /\ args.fn = "greedy_decode"
    /\ ~args.cuda
    /\ st' = [encodes |-> 1, ys |-> <<>>, i |-> 0, abnormal_count |-> 0,
              argsort |-> <<>>, predicted |-> <<>>, labels |-> <<>>, counted |-> FALSE]
    /\ pc' = "raised"
    /\ UNCHANGED <<args, ret, fedrest>>

\* one iteration of the loop, lines 485-502
DecodeStep ==
    /\ pc = "loop"
    /\ args.fn = "greedy_decode"
    /\ st.i < DecodeIterations(args.max_len)
    /\ st.i + 1 <= Columns(args.tgt)
    /\ \E sorted \in [DOMAIN args.tgt -> Argsorts] :
          LET predicted == [r \in DOMAIN sorted |-> LastK(sorted[r], TopCandidates)]
              labels == [r \in DOMAIN args.tgt |-> args.tgt[r][st.i + 1]]
              test == EqPred(labels, args.pred)
              hit == \E r \in DOMAIN test : test[r]
          IN  st' = [st EXCEPT !.i = @ + 1, !.argsort = sorted, !.predicted = predicted,
                               !.labels = labels, !.counted = hit,
                               !.abnormal_count = IF hit THEN @ + 1 ELSE @]
    /\ UNCHANGED <<args, ret, pc, fedrest>>

\* line 492 when tgt has no column i: IndexError
DecodeStepRaises ==
    /\ pc = "loop"
    /\ args.fn = "greedy_decode"
    /\ st.i < DecodeIterations(args.max_len)
    /\ st.i + 1 > Columns(args.tgt)
    /\ pc' = "raised"
    /\ UNCHANGED <<args, ret, st, fedrest>>

\* line 532
DecodeReturn ==
    /\ pc = "loop"
    /\ args.fn = "greedy_decode"
    /\ st.i >= DecodeIterations(args.max_len)
    /\ ret' = st.ys
    /\ pc' = "return"
    /\ UNCHANGED <<args, st, fedrest>>

NextDecode ==
    \/ DecodeEncode
    \/ DecodeNoDevice
    \/ DecodeStep
    \/ DecodeStepRaises
    \/ DecodeReturn

SpecDecode == InitDecode /\ [][NextDecode]_vars

\* The decode has what run_test gives it: the device it names, and a tgt
\* with a column for every iteration
DecodePre == args.cuda /\ Columns(args.tgt) >= args.max_len - 1

DecodeOutcome ==
    /\ pc \in {"loop", "return"} =>
          /\ st.encodes = 1
          /\ st.i <= args.max_len - 1
          /\ st.ys = FillLike(args.tgt, args.start_symbol)
    /\ pc = "return" =>
          /\ st.i = args.max_len - 1
          /\ DOMAIN ret = DOMAIN args.tgt
          /\ \A r \in DOMAIN ret :
                /\ DOMAIN ret[r] = DOMAIN args.tgt[r]
                /\ \A c \in DOMAIN ret[r] : ret[r][c] = args.start_symbol

C14_CountedIffOutsideTopK ==
    (args.fn = "greedy_decode" /\ pc = "loop" /\ st.i > 0) =>
        (st.counted <=>
            \E r \in DOMAIN st.labels :
                st.labels[r] \notin Range(LastK(st.argsort[r], args.g)))

(***************************************************************************)
(* test(args).  st is the sequence of effects performed so far.            *)
(***************************************************************************)
\* a file argument: not given, naming no file, or naming a sequence file
LogFiles == {"", "missing", "present"}

TestArgs ==
    [fn : {"test"}, log_normal : LogFiles, log_abnormal : LogFiles,
     model_saved : BOOLEAN, cuda : BOOLEAN]

InitTest == args \in TestArgs /\ HelperIdle

Effect(e) == st' = (IF st = Absent THEN <<e>> ELSE Append(st, e))

\* line 725
TestLoad ==
    /\ pc = "call"
    /\ args.fn = "test"
    /\ IF args.model_saved
         THEN Effect("torch.load") /\ pc' = "loaded"
         ELSE pc' = "raised" /\ UNCHANGED st
    /\ UNCHANGED <<args, ret, fedrest>>

\* lines 727-728
TestToDevice ==
    /\ pc = "loaded"
    /\ args.fn = "test"
    /\ IF args.cuda
         THEN Effect("model.cuda") /\ pc' = "check"
         ELSE pc' = "raised" /\ UNCHANGED st
    /\ UNCHANGED <<args, ret, fedrest>>

\* lines 733-735
TestCheckArguments ==
    /\ pc = "check"
    /\ args.fn = "test"
    /\ IF args.log_normal = "" /\ args.log_abnormal = ""
         THEN Effect("print Missing argument") /\ pc' = "return"
         ELSE pc' = "normal" /\ UNCHANGED st
    /\ UNCHANGED <<args, ret, fedrest>>

\* generate(file, W), or its open() failing; skipped for a file not given
GenerateOn(file, run, next) ==
    CASE file = "" -> pc' = next /\ UNCHANGED st
      [] file = "missing" -> pc' = "raised" /\ Effect("open")
      [] OTHER -> pc' = run /\ Effect("generate")

\* lines 737-738
TestNormal ==
    /\ pc = "normal"
    /\ args.fn = "test"
    /\ GenerateOn(args.log_normal, "normal_run", "abnormal")
    /\ UNCHANGED <<args, ret, fedrest>>

\* line 740
TestNormalRun ==
    /\ pc = "normal_run"
    /\ args.fn = "test"
    /\ Effect("run_test")
    /\ pc' = "abnormal"
    /\ UNCHANGED <<args, ret, fedrest>>

\* lines 742-743
TestAbnormal ==
    /\ pc = "abnormal"
    /\ args.fn = "test"
    /\ GenerateOn(args.log_abnormal, "abnormal_run", "timing")
    /\ UNCHANGED <<args, ret, fedrest>>

\* line 745
TestAbnormalRun ==
    /\ pc = "abnormal_run"
    /\ args.fn = "test"
    /\ Effect("run_test")
    /\ pc' = "timing"
    /\ UNCHANGED <<args, ret, fedrest>>

\* lines 753-757
TestReturn ==
    /\ pc = "timing"
    /\ args.fn = "test"
    /\ Effect("print Training Time")
    /\ pc' = "return"
    /\ UNCHANGED <<args, ret, fedrest>>

NextTest ==
    \/ TestLoad
    \/ TestToDevice
    \/ TestCheckArguments
    \/ TestNormal
    \/ TestNormalRun
    \/ TestAbnormal
    \/ TestAbnormalRun
    \/ TestReturn

SpecTest == InitTest /\ [][NextTest]_vars

\* C15 as stated: called with neither log file, test reports the usage error
\* and returns having loaded no model, moved nothing to a device and read no
\* data.
C15_UsageErrorBeforeAnyWork ==
    (args.fn = "test" /\ args.log_normal = "" /\ args.log_abnormal = "") =>
        /\ pc # "raised"
        /\ pc = "return" => st = <<"print Missing argument">>
        /\ st # Absent =>
              Range(st) \cap {"torch.load", "model.cuda", "open", "generate", "run_test"} = {}

(***************************************************************************)
(* generate(log_file, WINDOW_SIZE).  A file is its sequence of lines, a    *)
(* line the tuple of integer keys it parses to.                            *)
(***************************************************************************)
\* seq[a:b] for 0 <= a <= b
PySlice(seq, a, b) ==
    SubSeq(seq, a + 1, IF b < Len(seq) THEN b ELSE Len(seq))

\* line[0: WINDOW_SIZE]
InputSlice(line, W) == PySlice(line, 0, W)

\* line[WINDOW_SIZE:WINDOW_SIZE*2]
TargetSliceToEnd(line, W) == PySlice(line, W, Len(line))

TargetSlice(line, W) == PySlice(line, W, W * 2)

GenKeys == {1, 2}

GenLines == UNION {[1..n -> GenKeys] : n \in 0..MaxLineLen}

GenFiles == UNION {[1..n -> GenLines] : n \in 0..MaxLines}

GenerateArgs ==
    [fn : {"generate"}, lines : GenFiles, W : 0..MaxWindow, exists : BOOLEAN]

InitGenerate == args \in GenerateArgs /\ HelperIdle

\* lines 565-569: the open(); st.i counts the lines read, st.from records the
\* line each kept example came from
GenerateOpen ==
    /\ pc = "call"
    /\ args.fn = "generate"
    /\ IF args.exists
         THEN /\ pc' = "loop"
              /\ st' = [num_sessions |-> 0, inputs |-> <<>>, outputs |-> <<>>,
                        i |-> 0, from |-> <<>>]
         ELSE pc' = "raised" /\ UNCHANGED st
    /\ UNCHANGED <<args, ret, fedrest>>

\* lines 570-580: one line of the file
GenerateLine ==
    /\ pc = "loop"
    /\ args.fn = "generate"
    /\ st.i < Len(args.lines)
    /\ LET line == args.lines[st.i + 1]
           x == InputSlice(line, args.W)
           y == TargetSlice(line, args.W)
       IN  st' = IF y = <<>>
                   THEN [st EXCEPT !.i = @ + 1, !.num_sessions = @ + 1]
                   ELSE [st EXCEPT !.i = @ + 1, !.num_sessions = @ + 1,
                                   !.inputs = Append(@, x), !.outputs = Append(@, y),
                                   !.from = Append(@, st.i + 1)]
    /\ UNCHANGED <<args, ret, pc, fedrest>>

\* line 582
GenerateReturn ==
    /\ pc = "loop"
    /\ args.fn = "generate"
    /\ st.i = Len(args.lines)
    /\ ret' = <<st.inputs, st.outputs>>
    /\ pc' = "return"
    /\ UNCHANGED <<args, st, fedrest>>

NextGenerate ==
    \/ GenerateOpen
    \/ GenerateLine
    \/ GenerateReturn

SpecGenerate == InitGenerate /\ [][NextGenerate]_vars

\* C16: of every line read, generate keeps the first W keys as input and keys
\* W..2W-1 as target, and drops the line when it has no key at position W;
\* inputs and outputs have equal length, every input has exactly W keys and
\* every target between 1 and W keys.
C16_WindowsAndSkipEmptyTarget ==
    (args.fn = "generate" /\ pc \in {"loop", "return"}) =>
        /\ Len(st.inputs) = Len(st.outputs)
        /\ Len(st.from) = Len(st.inputs)
        /\ \A k \in DOMAIN st.inputs :
              LET line == args.lines[st.from[k]]
              IN  /\ Len(st.inputs[k]) = args.W
                  /\ Len(st.outputs[k]) >= 1
                  /\ Len(st.outputs[k]) <= args.W
                  /\ Len(st.outputs[k]) = Len(line) - args.W \/ Len(st.outputs[k]) = args.W
                  /\ \A c \in 1..args.W : st.inputs[k][c] = line[c]
                  /\ \A c \in DOMAIN st.outputs[k] : st.outputs[k][c] = line[args.W + c]
                  /\ k > 1 => st.from[k - 1] < st.from[k]
        /\ \A j \in 1..st.i :
              (j \in Range(st.from)) <=> (args.W > 0 /\ Len(args.lines[j]) > args.W)
        /\ pc = "return" => (st.i = Len(args.lines) /\ ret = <<st.inputs, st.outputs>>)

C16_Witness ==
    /\ args.fn = "generate"
    /\ pc = "return"
    /\ args.W = 1
    /\ Len(args.lines) = 2
    /\ Len(args.lines[1]) = 1
    /\ Len(args.lines[2]) = 3
    /\ ret[1] = <<<<args.lines[2][1]>>>>
    /\ ret[2] = <<<<args.lines[2][2]>>>>

(***************************************************************************)
(* data_gen, a generator: one action per next().  Example k of the lists   *)
(* carries keys that name it, so a batch shows which examples it holds.    *)
(***************************************************************************)
\* np.round(a / 10) for a >= 0: to the nearest integer, a tie to the even one
RoundTenths(a) ==
    LET q == a \div 10
        r == a % 10
    IN  IF r < 5 THEN q
        ELSE IF r > 5 THEN q + 1
        ELSE IF q % 2 = 0 THEN q ELSE q + 1

\* lines 536-543: the part of a list that mode selects
Split(list, mode) ==
    LET n == Len(list)
        train_size == RoundTenths(n * 8)
        val_size == RoundTenths(n * 2)
    IN  CASE mode = "train" -> SubSeq(list, 1, train_size)
          [] mode = "val" -> IF val_size = 0 THEN list
                             ELSE SubSeq(list, n - val_size + 1, n)
          [] OTHER -> list

\* np.zeros((batch, WINDOW_SIZE+1)) with t[:,0] = 1
StartTensor(batch, W) ==
    [i \in 1..batch |-> [c \in 1..(W + 1) |-> IF c = 1 THEN 1 ELSE 0]]

\* t[i][1:len(x)+1] = x
RowFill(row, x) ==
    [c \in DOMAIN row |-> IF c >= 2 /\ c <= Len(x) + 1 THEN x[c - 1] ELSE row[c]]

\* the position in the split that row i of batch j is read from (0-based)
ExampleIndexSliding(j, i, batch) == j * batch + i

ExampleIndex(j, i, batch) == i

\* lines 552-557: every row of t written for batch j
FillRows(t, list, j, batch) ==
    [i \in DOMAIN t |-> RowFill(t[i], list[ExampleIndex(j, i - 1, batch) + 1])]

\* what generate returns for n lines: example k has W keys 10k+1.. as input
\* and one key (k odd) or W keys (k even) as target
ExampleInputs(n, W) == [k \in 1..n |-> [c \in 1..W |-> 10 * k + c]]

ExampleOutputs(n, W) ==
    [k \in 1..n |-> [c \in 1..(IF k % 2 = 1 THEN 1 ELSE W) |-> 10 * k + W + c]]

DataGenArgs ==
    [fn : {"data_gen"}, n : 0..MaxExamples, W : 1..MaxWindow,
     batch : 1..MaxGenBatch, nbatches : 0..MaxNBatches, mode : {"", "train", "val"}]

InitDataGen == args \in DataGenArgs /\ HelperIdle

\* lines 536-549, run by the first next()
DataGenStart ==
    /\ pc = "call"
    /\ args.fn = "data_gen"
    /\ st' = [inputs |-> Split(ExampleInputs(args.n, args.W), args.mode),
              outputs |-> Split(ExampleOutputs(args.n, args.W), args.mode),
              t1 |-> StartTensor(args.batch, args.W),
              t2 |-> StartTensor(args.batch, args.W),
              j |-> 0, yielded |-> <<>>]
    /\ pc' = "iter"
    /\ UNCHANGED <<args, ret, fedrest>>

\* lines 551-562: one batch
DataGenYield ==
    /\ pc = "iter"
    /\ args.fn = "data_gen"
    /\ st.j < args.nbatches
    /\ \A i \in 0..(args.batch - 1) :
          ExampleIndex(st.j, i, args.batch) < Len(st.inputs)
    /\ LET t1 == FillRows(st.t1, st.inputs, st.j, args.batch)
           t2 == FillRows(st.t2, st.outputs, st.j, args.batch)
       IN  /\ st' = [st EXCEPT !.t1 = t1, !.t2 = t2, !.j = @ + 1,
                               !.yielded = Append(@, Batch(t1, t2, 0))]
           /\ ret' = Batch(t1, t2, 0)
    /\ UNCHANGED <<args, pc, fedrest>>

\* line 553: inputs[i] past the end of the split raises IndexError
DataGenRaises ==
    /\ pc = "iter"
    /\ args.fn = "data_gen"
    /\ st.j < args.nbatches
    /\ \E i \in 0..(args.batch - 1) :
          ExampleIndex(st.j, i, args.batch) >= Len(st.inputs)
    /\ pc' = "raised"
    /\ UNCHANGED <<args, ret, st, fedrest>>

\* range(nbatches) exhausted: StopIteration
DataGenStop ==
    /\ pc = "iter"
    /\ args.fn = "data_gen"
    /\ st.j >= args.nbatches
    /\ pc' = "return"
    /\ UNCHANGED <<args, ret, st, fedrest>>

NextDataGen ==
    \/ DataGenStart
    \/ DataGenYield
    \/ DataGenRaises
    \/ DataGenStop

SpecDataGen == InitDataGen /\ [][NextDataGen]_vars

\* Row i of a yielded tensor: the start symbol 1, the keys of one example, zeros
RowOf(x, W) == [c \in 1..(W + 1) |-> IF c = 1 THEN 1 ELSE IF c <= Len(x) + 1 THEN x[c - 1] ELSE 0]

\* C19: when the split holds at least `batch` examples, data_gen never raises,
\* yields exactly nbatches batches, and row i of every batch is the start
\* symbol followed by example i of the split; no example at position batch or
\* later appears in any batch.
C19_SameFirstExamplesEveryBatch ==
    (args.fn = "data_gen" /\ pc # "call" /\ Len(st.inputs) >= args.batch) =>
        /\ pc # "raised"
        /\ Len(st.yielded) = st.j
        /\ pc = "return" => Len(st.yielded) = args.nbatches
        /\ \A b \in DOMAIN st.yielded :
              /\ Len(st.yielded[b].src) = args.batch
              /\ \A i \in 1..args.batch :
                    /\ st.yielded[b].src[i] = RowOf(st.inputs[i], args.W)
                    /\ st.yielded[b].trg[i] \o <<st.yielded[b].trg_y[i][args.W]>>
                          = RowOf(st.outputs[i], args.W)
                    /\ st.yielded[b].src[i][1] = 1
                    /\ st.yielded[b].trg[i][1] = 1
              /\ \A k \in (args.batch + 1)..Len(st.inputs) :
                    \A i \in 1..args.batch :
                        st.inputs[k][1] \notin Range(st.yielded[b].src[i])

C19_Witness ==
    /\ args.fn = "data_gen"
    /\ pc = "return"
    /\ args.nbatches = 2
    /\ args.batch = 2
    /\ Len(st.inputs) = 4
    /\ Len(st.yielded) = 2
    /\ st.yielded[1] = st.yielded[2]
    /\ st.yielded[2].src[2][2] = st.inputs[2][1]

(***************************************************************************)
(* SimpleLossCompute.__call__ and MultiGPULossCompute.__call__.  st.log is *)
(* the sequence of operations on the model performed by the call, and      *)
(* st.params counts the changes made to the model's parameters.            *)
(***************************************************************************)
DefaultChunkSize == 5

ChunkSizes == {1, 2, DefaultChunkSize}

\* `if self.opt is not None: self.opt.step(); self.opt.optimizer.zero_grad()`
AfterBackwardAlwaysSteps(opt) == <<"opt.step", "zero_grad">>

AfterBackward(opt) == IF opt THEN <<"opt.step", "zero_grad">> ELSE <<>>

Count(events, e) == Cardinality({p \in DOMAIN events : events[p] = e})

\* opt: whether an optimizer is attached; positions: out.size(1)
LossArgs ==
    [fn : {"SimpleLossCompute", "MultiGPULossCompute"}, opt : BOOLEAN,
     positions : 1..MaxPositions, chunk_size : ChunkSizes]

InitLoss == args \in LossArgs /\ HelperIdle

\* SimpleLossCompute, lines 351-353
SimpleForwardBackward ==
    /\ pc = "call"
    /\ args.fn = "SimpleLossCompute"
    /\ st' = [log |-> <<"generator", "criterion", "backward">>, i |-> 0, params |-> 0]
    /\ pc' = "finish"
    /\ UNCHANGED <<args, ret, fedrest>>

\* MultiGPULossCompute, lines 394-402
MultiScatter ==
    /\ pc = "call"
    /\ args.fn = "MultiGPULossCompute"
    /\ st' = [log |-> <<"replicate", "scatter">>, i |-> 0, params |-> 0]
    /\ pc' = "chunks"
    /\ UNCHANGED <<args, ret, fedrest>>

\* one chunk, lines 406-430
MultiChunk ==
    /\ pc = "chunks"
    /\ args.fn = "MultiGPULossCompute"
    /\ st.i < args.positions
    /\ st' = [st EXCEPT !.i = @ + args.chunk_size,
                        !.log = @ \o <<"generator", "criterion">>
                                  \o (IF args.opt THEN <<"backward">> ELSE <<>>)]
    /\ UNCHANGED <<args, ret, pc, fedrest>>

\* after the last chunk, lines 433-438
MultiBackward ==
    /\ pc = "chunks"
    /\ args.fn = "MultiGPULossCompute"
    /\ st.i >= args.positions
    /\ st' = [st EXCEPT !.log = @ \o (IF args.opt THEN <<"backward">> ELSE <<>>)]
    /\ pc' = "finish"
    /\ UNCHANGED <<args, ret, fedrest>>

\* lines 354-357 and 439-441
LossFinish ==
    /\ pc = "finish"
    /\ args.fn \in {"SimpleLossCompute", "MultiGPULossCompute"}
    /\ LET done == AfterBackward(args.opt)
       IN  st' = [st EXCEPT !.log = @ \o done, !.params = @ + Count(done, "opt.step")]
    /\ ret' = <<"loss">>
    /\ pc' = "return"
    /\ UNCHANGED <<args, fedrest>>

NextLoss ==
    \/ SimpleForwardBackward
    \/ MultiScatter
    \/ MultiChunk
    \/ MultiBackward
    \/ LossFinish

SpecLoss == InitLoss /\ [][NextLoss]_vars

\* C18: a call of either loss-compute strategy with an optimizer attached makes
\* exactly one optimizer step, directly followed by zero_grad, after every
\* backward pass and (multi-shard) after every chunk; without an optimizer it
\* makes no step and changes no parameter.
C18_OneStepAfterAllBackward ==
    (args.fn \in {"SimpleLossCompute", "MultiGPULossCompute"} /\ pc # "call") =>
        /\ \A p \in DOMAIN st.log :
              st.log[p] = "opt.step" =>
                  /\ p + 1 = Len(st.log)
                  /\ st.log[p + 1] = "zero_grad"
                  /\ Count(st.log, "backward") >= 1
                  /\ args.fn = "MultiGPULossCompute" =>
                        Count(st.log, "generator") * args.chunk_size >= args.positions
        /\ st.params = Count(st.log, "opt.step")
        /\ pc = "return" =>
              /\ args.opt => (Count(st.log, "opt.step") = 1 /\ Count(st.log, "zero_grad") = 1)
              /\ ~args.opt => (Count(st.log, "opt.step") = 0 /\ st.params = 0)

C18_Witness ==
    /\ args.fn = "MultiGPULossCompute"
    /\ pc = "return"
    /\ args.opt
    /\ args.positions = 3
    /\ args.chunk_size = 1
    /\ Count(st.log, "backward") = 4
    /\ st.params = 1

(***************************************************************************)
(* train(args).  st.log is the sequence of steps completed, st.epoch the   *)
(* epochs run on the CUDA branch.                                          *)
(***************************************************************************)
\* data_gen(inputs, outputs, WINDOW_SIZE, batch, nbatches, mode=""): the
\* positional arguments it needs and the most it takes
DataGenRequired == 5

DataGenParams == 6

\* arguments passed by the calls of the CUDA branch and of the else branch
CudaCallArgs == 6

CpuCallArgs == 4

\* Python binds a call's positional arguments when the call is made; a call
\* with too few or too many raises TypeError there
Binds(passed) == passed >= DataGenRequired /\ passed <= DataGenParams

\* whether run_epoch gets through data_gen(inputs, outputs, W, batch, _, mode)
EpochRuns(n, batch, mode) == Len(Split(ExampleInputs(n, 1), mode)) >= batch

TrainArgs ==
    [fn : {"train"}, cuda : BOOLEAN, exists : BOOLEAN, num_heads : {1, 2, 3},
     hidden_size : {4}, n : 0..MaxExamples, batch_size : 1..MaxGenBatch,
     epochs : 0..MaxEpochs]

InitTrain == args \in TrainArgs /\ HelperIdle

\* lines 599-602: make_model, criterion, model_opt
TrainBuild ==
    /\ pc = "call"
    /\ args.fn = "train"
    /\ IF AssertDivisible(args.hidden_size, args.num_heads)
         THEN st' = [log |-> <<"make_model">>, epoch |-> 0] /\ pc' = "generate"
         ELSE pc' = "raised" /\ UNCHANGED st
    /\ UNCHANGED <<args, ret, fedrest>>

\* line 604
TrainGenerate ==
    /\ pc = "generate"
    /\ args.fn = "train"
    /\ IF args.exists
         THEN st' = [st EXCEPT !.log = Append(@, "generate")] /\ pc' = "branch"
         ELSE pc' = "raised" /\ UNCHANGED st
    /\ UNCHANGED <<args, ret, fedrest>>

\* lines 606-609
TrainToCuda ==
    /\ pc = "branch"
    /\ args.fn = "train"
    /\ args.cuda
    /\ st' = [st EXCEPT !.log = Append(@, "model.cuda")]
    /\ pc' = "epochs"
    /\ UNCHANGED <<args, ret, fedrest>>

\* lines 611-617: one epoch of the CUDA branch
TrainCudaEpoch ==
    /\ pc = "epochs"
    /\ args.fn = "train"
    /\ st.epoch < args.epochs
    /\ Binds(CudaCallArgs)
    /\ IF EpochRuns(args.n, args.batch_size, "train")
         THEN IF EpochRuns(args.n, args.batch_size, "val")
                THEN /\ st' = [st EXCEPT !.epoch = @ + 1,
                                         !.log = @ \o <<"run_epoch train", "run_epoch val">>]
                     /\ pc' = pc
                ELSE /\ st' = [st EXCEPT !.log = Append(@, "run_epoch train")]
                     /\ pc' = "raised"
         ELSE pc' = "raised" /\ UNCHANGED st
    /\ UNCHANGED <<args, ret, fedrest>>

\* range(epochs) exhausted
TrainCudaDone ==
    /\ pc = "epochs"
    /\ args.fn = "train"
    /\ st.epoch >= args.epochs
    /\ pc' = "save"
    /\ UNCHANGED <<args, ret, st, fedrest>>

\* lines 619-622: the else branch
TrainCpu ==
    /\ pc = "branch"
    /\ args.fn = "train"
    /\ ~args.cuda
    /\ IF Binds(CpuCallArgs)
         THEN /\ st' = [st EXCEPT !.log = @ \o <<"model.train", "run_epoch train",
                                                 "model.eval", "run_epoch val">>]
              /\ pc' = "save"
         ELSE /\ st' = [st EXCEPT !.log = Append(@, "model.train")]
              /\ pc' = "raised"
    /\ UNCHANGED <<args, ret, fedrest>>

\* lines 624-625
TrainSave ==
    /\ pc = "save"
    /\ args.fn = "train"
    /\ st' = [st EXCEPT !.log = Append(@, "torch.save")]
    /\ pc' = "saved"
    /\ UNCHANGED <<args, ret, fedrest>>

\* line 627
TrainReturn ==
    /\ pc = "saved"
    /\ args.fn = "train"
    /\ ret' = <<"model">>
    /\ pc' = "return"
    /\ UNCHANGED <<args, st, fedrest>>

NextTrain ==
    \/ TrainBuild
    \/ TrainGenerate
    \/ TrainToCuda
    \/ TrainCudaEpoch
    \/ TrainCudaDone
    \/ TrainCpu
    \/ TrainSave
    \/ TrainReturn

SpecTrain == InitTrain /\ [][NextTrain]_vars

\* C17 as stated: without CUDA, a train whose model builds and whose sequence
\* file exists does not fail; it reaches the save and returns having run one
\* training and one evaluation epoch.
C17_CpuTrainDoesNotFail ==
    (/\ args.fn = "train"
     /\ ~args.cuda
     /\ AssertDivisible(args.hidden_size, args.num_heads)
     /\ args.exists) =>
        /\ pc # "raised"
        /\ pc = "return" =>
              /\ Count(st.log, "run_epoch train") = 1
              /\ Count(st.log, "run_epoch val") = 1
              /\ Count(st.log, "torch.save") = 1

=============================================================================
